---- MODULE Spec2Model ----
(***************************************************************************)
(* A model of LocalDataStore (app.py): a file-persisted key-value store    *)
(* with per-entry expiry.  One action per public operation; every action   *)
(* is the whole call, its save_data included.                              *)
(***************************************************************************)
EXTENDS Integers, Sequences, FiniteSets, TLC

(***************************************************************************)
(* Program constants (class attributes of LocalDataStore).                 *)
(***************************************************************************)
MAX_FILE_SIZE == 1 * 1024 * 1024 * 1024
MAX_KEY_LENGTH == 32
MAX_VALUE_SIZE == 16 * 1024
BATCH_LIMIT == 100
\* int(MAX_FILE_SIZE * 0.9), computed without leaving 32-bit integers.
\* WARNING_THRESHOLD = 0.90 and CRITICAL_THRESHOLD = 0.98, in hundredths.
WARNING_THRESHOLD == 90
CRITICAL_THRESHOLD == 98

MAX_DATA_CAPACITY == 9 * (MAX_FILE_SIZE \div 10) + (9 * (MAX_FILE_SIZE % 10)) \div 10

(***************************************************************************)
(* Bounds of the model.                                                    *)
(***************************************************************************)
\* The clock runs over 0..MaxTime.
MaxTime == 2
\* The largest ttl a caller passes.
MaxTtl == 1
\* A batch names at most MaxPairs of the model's keys.
MaxPairs == 2
\* The different contents of a file that does not parse: 1..MaxGarbage.
MaxGarbage == 2
\* Batches of BATCH_LIMIT filler pairs created at most, in SpecCap.
MaxBulk == 588

(***************************************************************************)
(* Python values.  None and an optional number are <<>> and <<n>>.         *)
(***************************************************************************)
None == <<>>
Some(n) == <<n>>

\* A dict key of a value: a str, or an int (json.dumps writes both as a string).
StrKey(s) == [t |-> "str", s |-> s]
IntKey(i) == [t |-> "int", s |-> ToString(i)]

\* The value {k: "x" * n}: a one-item dict whose payload is a string of n characters.
PyValue(k, n) == [k |-> k, n |-> n]

\* The keys and values the callers pass.
Key4 == "key1"
Key32 == "k2345678901234567890123456789012"
Key33 == "k23456789012345678901234567890123"
Keys == {Key4, Key32, Key33}

\* len(json.dumps({"data": "x" * n})) = n + 12, len(json.dumps({1: "x" * n})) = n + 9.
VSmall == PyValue(StrKey("data"), 1)
VMax == PyValue(StrKey("data"), MAX_VALUE_SIZE - 12)
VOver == PyValue(StrKey("data"), MAX_VALUE_SIZE - 11)
VIntKey == PyValue(IntKey(1), 1)
Values == {VSmall, VMax, VOver, VIntKey}
NoValue == PyValue(StrKey(""), 0)

Ttls == {None} \cup {Some(n) : n \in 0..MaxTtl}

(***************************************************************************)
(* json: the text of a value is the object {"<k>": "<n times x>"}; the key *)
(* of an object is always a string.                                        *)
(***************************************************************************)
json_dumps_value(v) == [k |-> v.k.s, n |-> v.n]
json_loads_value(j) == PyValue(StrKey(j.k), j.n)

\* len(json.dumps(value)): { "k" : space "payload" }
json_value_len(j) == 1 + (Len(j.k) + 2) + 2 + (j.n + 2) + 1
value_size(v) == json_value_len(json_dumps_value(v))

\* The text of an expiry: null, or a float of seconds since the epoch (18 characters).
EpochTextLen == 18
json_expiry_len(e) == IF e = None THEN 4 ELSE EpochTextLen

\* json.dumps / json.load of the whole map.
json_dumps(d) ==
    [k \in DOMAIN d |-> [value |-> json_dumps_value(d[k].value), expiry |-> d[k].expiry]]
json_load(doc) ==
    [k \in DOMAIN doc |-> [value |-> json_loads_value(doc[k].value), expiry |-> doc[k].expiry]]

\* One entry of the document: "key": {"value": <value>, "expiry": <expiry>}
json_entry_len(key, e) ==
    (Len(key) + 2) + 2 + 10 + json_value_len(e.value) + 12 + json_expiry_len(e.expiry) + 1

\* A filler entry: a key of MAX_KEY_LENGTH, a value of MAX_VALUE_SIZE, expiry null.
fill_entry_len == (MAX_KEY_LENGTH + 2) + 2 + 10 + MAX_VALUE_SIZE + 12 + 4 + 1

RECURSIVE json_entries_len(_, _)
json_entries_len(doc, ks) ==
    IF ks = {} THEN 0
    ELSE LET k == CHOOSE x \in ks : TRUE
         IN json_entry_len(k, doc[k]) + json_entries_len(doc, ks \ {k})

\* len(json.dumps(self.data).encode('utf-8')): the braces, the entries, ", " between them.
current_size(d, f) ==
    LET n == Cardinality(DOMAIN d) + f
    IN 2 + json_entries_len(json_dumps(d), DOMAIN d) + f * fill_entry_len
         + (IF n > 0 THEN 2 * (n - 1) ELSE 0)

VARIABLES
    data,   \* self.data, for the keys of Keys: key -> [value, expiry]
    fill,   \* the number of entries self.data holds besides, under the fresh keys of
            \* batches (MAX_KEY_LENGTH characters, a value of MAX_VALUE_SIZE, no expiry)
    file,   \* the backing file: [doc |-> the json text of the map, fill |-> its fillers],
            \* or bytes that do not parse, or no file
    now,    \* time.time()
    last,   \* the last call: when it ran, its arguments, what it returned or raised,
            \* and how often it saved and took self.lock
    backup, \* the file at file_path + ".backup": None, or the bytes moved there
    lock,   \* self.lock: "none", or the thread that holds it
    thr,    \* the calling threads: where each is in its call, and what the call returned
    file_lock, \* self.file_lock: the handle acquire_file_lock opened last
    mon     \* the monitoring thread: where it is in its loop, and what it logged last

\* What the threads share besides the map and the file.
conc == <<lock, thr, file_lock, mon>>

vars == <<data, fill, file, now, last, backup, conc>>

\* The empty dict.
EmptyMap == [k \in {} |-> NoValue]

Call(op) ==
    [op |-> op, at |-> now, key |-> "", value |-> NoValue, pairs |-> <<>>, nfill |-> 0,
     exc |-> "none", status |-> "", message |-> "", rvalue |-> None,
     created |-> <<>>, errors |-> [k \in {} |-> ""], removed |-> {}, saves |-> 0,
     locks |-> 0]

(***************************************************************************)
(* save_data: the whole map is written to the file.                        *)
(***************************************************************************)
save_data(d, f) == [doc |-> json_dumps(d), fill |-> f]

\* A file json.load cannot parse: the bytes g >= 1 of a foreign or torn write, or (0)
\* what an unfinished write of the store leaves, an empty or cut off document.
Garbage(g) == [bytes |-> g]

\* No file at file_path.
NoFile == [missing |-> TRUE]

\* The file is there and parses.
IsJson(f) == "doc" \in DOMAIN f

\* The threads that call the store.
Threads == {"t1", "t2"}

\* A thread outside any call.
IdleThread ==
    [pc |-> "idle", op |-> "", key |-> "", seen |-> EmptyMap, exc |-> "none", status |-> ""]

\* self.file_lock = None (__init__), and a handle: the thread whose acquire_file_lock
\* opened it, whether it is still open, and whether it holds the lock of the file.
NoHandle == [owner |-> "none", open |-> FALSE, locked |-> FALSE]

(***************************************************************************)
(* Expiry.                                                                 *)
(***************************************************************************)
is_key_expired_le(d, t, key) ==
    IF key \notin DOMAIN d \/ d[key].expiry = None THEN FALSE
    ELSE d[key].expiry[1] <= t

is_key_expired(d, t, key) ==
    IF key \notin DOMAIN d \/ d[key].expiry = None THEN FALSE
    ELSE d[key].expiry[1] < t

(***************************************************************************)
(* enforce_file_size_limit: what it would raise.  No operation calls it.   *)
(***************************************************************************)
enforce_file_size_limit(d, f, t) ==
    IF current_size(d, f) >= MAX_DATA_CAPACITY
    THEN IF current_size([k \in DOMAIN d \ {x \in DOMAIN d : d[x].expiry # None
                                               /\ d[x].expiry[1] # 0
                                               /\ d[x].expiry[1] < t} |-> d[k]], f)
              >= MAX_DATA_CAPACITY
         THEN "FileSizeLimitExceededError"
         ELSE "ok"
    ELSE "ok"

(***************************************************************************)
(* create                                                                  *)
(***************************************************************************)
create_check_ge(d, key, value) ==
    IF key \in DOMAIN d THEN "KeyExistsError"
    ELSE IF Len(key) >= MAX_KEY_LENGTH THEN "KeyTooLongError"
    ELSE IF value_size(value) > MAX_VALUE_SIZE THEN "ValueTooLargeError"
    ELSE "ok"

create_check_validate_first(d, key, value) ==
    IF Len(key) > MAX_KEY_LENGTH THEN "KeyTooLongError"
    ELSE IF value_size(value) > MAX_VALUE_SIZE THEN "ValueTooLargeError"
    ELSE IF key \in DOMAIN d THEN "KeyExistsError"
    ELSE "ok"

create_check_no_exists(d, key, value) ==
    IF Len(key) > MAX_KEY_LENGTH THEN "KeyTooLongError"
    ELSE IF value_size(value) > MAX_VALUE_SIZE THEN "ValueTooLargeError"
    ELSE "ok"

\* A create that takes an entry whose expiry has passed for absent.
create_check_expired_absent(d, key, value) ==
    IF key \in DOMAIN d /\ ~is_key_expired(d, now, key) THEN "KeyExistsError"
    ELSE IF Len(key) > MAX_KEY_LENGTH THEN "KeyTooLongError"
    ELSE IF value_size(value) > MAX_VALUE_SIZE THEN "ValueTooLargeError"
    ELSE "ok"

\* The checks of create, in the order of the code; "ok" when none raises.
create_check(d, key, value) ==
    IF key \in DOMAIN d THEN "KeyExistsError"
    ELSE IF Len(key) > MAX_KEY_LENGTH THEN "KeyTooLongError"
    ELSE IF value_size(value) > MAX_VALUE_SIZE THEN "ValueTooLargeError"
    ELSE "ok"

\* expiry = time.time() + ttl if ttl else None
create_expiry(t, ttl) ==
    IF ttl # None /\ ttl[1] # 0 THEN Some(t + ttl[1]) ELSE None

\* self.data[key] = {"value": value, "expiry": expiry}
create_store(d, t, key, value, ttl) ==
    [k \in DOMAIN d \cup {key} |->
        IF k = key THEN [value |-> value, expiry |-> create_expiry(t, ttl)] ELSE d[k]]

\* create without its save_data.
create_no_save(key, value, ttl) ==
    LET chk == create_check(data, key, value) IN
    /\ IF chk = "ok"
       THEN /\ data' = create_store(data, now, key, value, ttl)
            /\ last' = [Call("create") EXCEPT !.key = key, !.value = value,
                            !.status = "True", !.locks = 1]
       ELSE /\ UNCHANGED data
            /\ last' = [Call("create") EXCEPT !.key = key, !.value = value,
                            !.exc = chk, !.locks = 1]
    /\ UNCHANGED <<fill, file, now, backup, conc>>

create(key, value, ttl) ==
    LET chk == create_check(data, key, value) IN
    /\ IF chk = "ok"
       THEN /\ data' = create_store(data, now, key, value, ttl)
            /\ file' = save_data(data', fill)
            /\ last' = [Call("create") EXCEPT !.key = key, !.value = value,
                            !.status = "True", !.saves = 1, !.locks = 1]
       ELSE /\ UNCHANGED <<data, file>>
            /\ last' = [Call("create") EXCEPT !.key = key, !.value = value,
                            !.exc = chk, !.locks = 1]
    /\ UNCHANGED <<fill, now, backup, conc>>

(***************************************************************************)
(* read                                                                    *)
(***************************************************************************)
read_result(d, t, key) ==
    IF key \notin DOMAIN d \/ is_key_expired(d, t, key)
    THEN [status |-> "error", message |-> "not found", value |-> None]
    ELSE [status |-> "success", message |-> "", value |-> Some(d[key].value)]

read(key) ==
    LET r == read_result(data, now, key) IN
    /\ last' = [Call("read") EXCEPT !.key = key, !.status = r.status,
                    !.message = r.message, !.rvalue = r.value, !.locks = 1]
    /\ UNCHANGED <<data, fill, file, now, backup, conc>>

(***************************************************************************)
(* delete                                                                  *)
(***************************************************************************)
delete_check_present(d, t, key) ==
    IF key \notin DOMAIN d THEN "KeyNotFoundError" ELSE "ok"

delete_check(d, t, key) ==
    IF key \notin DOMAIN d \/ is_key_expired(d, t, key) THEN "KeyNotFoundError" ELSE "ok"

\* del self.data[key]
delete_store(d, key) == [k \in DOMAIN d \ {key} |-> d[k]]

delete(key) ==
    LET chk == delete_check(data, now, key) IN
    /\ IF chk = "ok"
       THEN /\ data' = delete_store(data, key)
            /\ file' = save_data(data', fill)
            /\ last' = [Call("delete") EXCEPT !.key = key, !.status = "deleted",
                            !.saves = 1, !.locks = 1]
       ELSE /\ UNCHANGED <<data, file>>
            /\ last' = [Call("delete") EXCEPT !.key = key, !.exc = chk, !.locks = 1]
    /\ UNCHANGED <<fill, now, backup, conc>>

(***************************************************************************)
(* cleanup_expired_keys: one scan, one save.                               *)
(***************************************************************************)
expired_keys_le(d, t) ==
    {k \in DOMAIN d : d[k].expiry # None /\ d[k].expiry[1] # 0 /\ d[k].expiry[1] <= t}

\* [key for key, data in self.data.items() if data["expiry"] and data["expiry"] < current_time]
expired_keys(d, t) ==
    {k \in DOMAIN d : d[k].expiry # None /\ d[k].expiry[1] # 0 /\ d[k].expiry[1] < t}

\* A scan that stops at the first expired key it finds.
cleanup_store_one(d, t) ==
    IF expired_keys(d, t) = {} THEN d
    ELSE [k \in DOMAIN d \ {CHOOSE x \in expired_keys(d, t) : TRUE} |-> d[k]]

cleanup_store(d, t) == [k \in DOMAIN d \ expired_keys(d, t) |-> d[k]]

\* The keys it removed are the ones its log lines name ("Cleaned up expired key: ...").
cleanup_expired_keys ==
    /\ data' = cleanup_store(data, now)
    /\ file' = save_data(data', fill)
    /\ last' = [Call("cleanup") EXCEPT !.removed = DOMAIN data \ DOMAIN data',
                    !.saves = 1, !.locks = 1]
    /\ UNCHANGED <<fill, now, backup, conc>>

(***************************************************************************)
(* batch_create: kv_pairs is the dict of `pairs` (distinct keys, in order) *)
(* and of nfill more pairs whose keys are fresh, of MAX_KEY_LENGTH         *)
(* characters, with a value of MAX_VALUE_SIZE characters.                  *)
(***************************************************************************)
BatchPairs == {<<Key4, VSmall>>, <<Key4, VOver>>, <<Key32, VSmall>>, <<Key33, VSmall>>}

PairSeqs ==
    {ps \in UNION {[1..n -> BatchPairs] : n \in 0..MaxPairs} :
        \A i, j \in DOMAIN ps : i # j => ps[i][1] # ps[j][1]}

\* The ttl of a batch: none, or the largest.
BatchTtls == {None, Some(MaxTtl)}

batch_over_limit_ge(pairs, nfill) == Len(pairs) + nfill >= BATCH_LIMIT

\* len(kv_pairs) > self.BATCH_LIMIT
batch_over_limit(pairs, nfill) == Len(pairs) + nfill > BATCH_LIMIT

\* The loop, were it to stop at the first pair that fails.
RECURSIVE batch_loop_abort(_, _, _, _, _)
batch_loop_abort(acc, pairs, i, t, ttl) ==
    IF i > Len(pairs) THEN acc
    ELSE LET key == pairs[i][1]
             value == pairs[i][2]
             chk == create_check(acc.data, key, value)
         IN IF chk = "ok"
            THEN batch_loop_abort([acc EXCEPT !.data = create_store(acc.data, t, key, value, ttl),
                                              !.created = Append(acc.created, key),
                                              !.saves = acc.saves + 1],
                                  pairs, i + 1, t, ttl)
            ELSE [acc EXCEPT !.errors = [k \in DOMAIN acc.errors \cup {key} |->
                                            IF k = key THEN chk ELSE acc.errors[k]]]

\* The loop over the pairs from the i-th on: one create per pair, its error collected.
RECURSIVE batch_loop(_, _, _, _, _)
batch_loop(acc, pairs, i, t, ttl) ==
    IF i > Len(pairs) THEN acc
    ELSE LET key == pairs[i][1]
             value == pairs[i][2]
             chk == create_check(acc.data, key, value)
         IN IF chk = "ok"
            THEN batch_loop([acc EXCEPT !.data = create_store(acc.data, t, key, value, ttl),
                                        !.created = Append(acc.created, key),
                                        !.saves = acc.saves + 1],
                            pairs, i + 1, t, ttl)
            ELSE batch_loop([acc EXCEPT !.errors =
                                [k \in DOMAIN acc.errors \cup {key} |->
                                    IF k = key THEN chk ELSE acc.errors[k]]],
                            pairs, i + 1, t, ttl)

\* "partial_success" if results["errors"] else "success"
batch_status(errors) == IF DOMAIN errors # {} THEN "partial_success" ELSE "success"

batch_create(pairs, nfill, ttl) ==
    IF batch_over_limit(pairs, nfill)
    THEN /\ last' = [Call("batch_create") EXCEPT !.pairs = pairs, !.nfill = nfill,
                         !.status = "error",
                         !.message = "Batch limit exceeded"]
         /\ UNCHANGED <<data, fill, file, now, backup, conc>>
    ELSE LET r == batch_loop([data |-> data, created |-> <<>>,
                              errors |-> [k \in {} |-> ""], saves |-> 0],
                             pairs, 1, now, ttl)
         IN /\ data' = r.data
            /\ fill' = fill + nfill
            /\ file' = IF r.saves + nfill > 0 THEN save_data(data', fill') ELSE file
            /\ last' = [Call("batch_create") EXCEPT !.pairs = pairs, !.nfill = nfill,
                            !.created = r.created, !.errors = r.errors,
                            !.status = batch_status(r.errors), !.saves = r.saves + nfill,
                            !.locks = Len(pairs) + nfill]
            /\ UNCHANGED <<now, backup, conc>>

(***************************************************************************)
(* A fresh instance on the same backing file: __init__ calls load_data,    *)
(* which reads the whole document.                                         *)
(***************************************************************************)
\* shutil.move leaves the earlier backup in place.
load_data_keep_backup ==
    /\ IF IsJson(file)
       THEN /\ data' = json_load(file.doc)
            /\ fill' = file.fill
            /\ last' = Call("init")
            /\ UNCHANGED <<file, backup>>
       ELSE /\ data' = EmptyMap
            /\ fill' = 0
            /\ file' = save_data(data', fill')
            /\ IF file = NoFile
               THEN /\ last' = [Call("init") EXCEPT !.saves = 1]
                    /\ UNCHANGED backup
               ELSE /\ backup' = IF backup = None THEN Some(file.bytes) ELSE backup
                    /\ last' = [Call("init") EXCEPT !.exc = "InvalidJSONError", !.saves = 1]
    /\ UNCHANGED <<now, conc>>

\* json.load of the file; FileNotFoundError: an empty map, saved at once;
\* json.JSONDecodeError: the file is moved to the backup path, over what was there, an
\* empty map is saved and InvalidJSONError raised.  The calls after a load that raised
\* are those of the instance the next construction returns, which loads the document
\* this one saved.
load_data ==
    /\ IF IsJson(file)
       THEN /\ data' = json_load(file.doc)
            /\ fill' = file.fill
            /\ last' = Call("init")
            /\ UNCHANGED <<file, backup>>
       ELSE /\ data' = EmptyMap
            /\ fill' = 0
            /\ file' = save_data(data', fill')
            /\ IF file = NoFile
               THEN /\ last' = [Call("init") EXCEPT !.saves = 1]
                    /\ UNCHANGED backup
               ELSE /\ backup' = Some(file.bytes)
                    /\ last' = [Call("init") EXCEPT !.exc = "InvalidJSONError", !.saves = 1]
    /\ UNCHANGED <<now, conc>>

\* The file as load_data can find it: bytes that do not parse, written by something
\* else than this store, and no file.
Corrupt(g) ==
    /\ file' = Garbage(g)
    /\ UNCHANGED <<data, fill, now, last, backup, conc>>

Remove ==
    /\ file # NoFile
    /\ file' = NoFile
    /\ UNCHANGED <<data, fill, now, last, backup, conc>>

(***************************************************************************)
(* The clock.                                                              *)
(***************************************************************************)
Tick ==
    /\ now < MaxTime
    /\ now' = now + 1
    /\ UNCHANGED <<data, fill, file, last, backup, conc>>

(***************************************************************************)
(* __init__ with no backing file: load_data starts an empty map and saves. *)
(***************************************************************************)
Init ==
    /\ data = EmptyMap
    /\ fill = 0
    /\ file = save_data(EmptyMap, 0)
    /\ now = 0
    /\ last = Call("init")
    /\ backup = None
    /\ lock = "none"
    /\ thr = [t \in Threads |-> IdleThread]
    /\ file_lock = NoHandle
    /\ mon = [pc |-> "sleep", logged |-> ""]

Next ==
    \/ \E key \in Keys, value \in Values, ttl \in Ttls : create(key, value, ttl)
    \/ \E key \in Keys : read(key)
    \/ \E key \in Keys : delete(key)
    \/ cleanup_expired_keys
    \/ load_data
    \/ Tick

Spec == Init /\ [][Next]_vars

(***************************************************************************)
(* The store under batches of the model's keys: batch_create, with delete, *)
(* cleanup and the clock to bring about keys that exist, that are gone and *)
(* that expired.                                                           *)
(***************************************************************************)
NextBatch ==
    \/ \E pairs \in PairSeqs, ttl \in BatchTtls : batch_create(pairs, 0, ttl)
    \/ \E key \in {Key4, Key32} : delete(key)
    \/ cleanup_expired_keys
    \/ Tick

SpecBatch == Init /\ [][NextBatch]_vars

(***************************************************************************)
(* The store filling up: batches of BATCH_LIMIT fresh keys, each with a    *)
(* value of MAX_VALUE_SIZE, and batches of one pair more, beside creates   *)
(* and deletes of one key.                                                 *)
(***************************************************************************)
\* A batch of exactly BATCH_LIMIT pairs, all of fresh keys.
BulkBatch ==
    /\ fill + BATCH_LIMIT <= MaxBulk * BATCH_LIMIT
    /\ batch_create(<<>>, BATCH_LIMIT, None)

\* A batch of BATCH_LIMIT + 1 pairs: one of the model's keys and BATCH_LIMIT fresh ones.
OverBatch ==
    \E pair \in BatchPairs : batch_create(<<pair>>, BATCH_LIMIT, None)

NextCap ==
    \/ BulkBatch
    \/ OverBatch
    \/ \E value \in {VSmall, VMax} : create(Key4, value, None)
    \/ delete(Key4)
    \/ cleanup_expired_keys

SpecCap == Init /\ [][NextCap]_vars

(***************************************************************************)
(* The store with entries that expire, under every call that takes a key:  *)
(* create, read, delete and batch_create, beside cleanup and the clock.    *)
(***************************************************************************)
NextExpired ==
    \/ \E key \in {Key4, Key32}, ttl \in BatchTtls : create(key, VSmall, ttl)
    \/ \E key \in {Key4, Key32} : read(key)
    \/ \E key \in {Key4, Key32} : delete(key)
    \/ \E pairs \in PairSeqs, ttl \in BatchTtls : batch_create(pairs, 0, ttl)
    \/ cleanup_expired_keys
    \/ Tick

SpecExpired == Init /\ [][NextExpired]_vars

(***************************************************************************)
(* The store over a backing file that something else cuts, overwrites or   *)
(* removes between the constructions of instances.                         *)
(***************************************************************************)
NextLoad ==
    \/ load_data
    \/ \E g \in 1..MaxGarbage : Corrupt(g)
    \/ Remove
    \/ \E key \in {Key4, Key32} : create(key, VSmall, None)
    \/ \E key \in {Key4, Key32} : delete(key)

SpecLoad == Init /\ [][NextLoad]_vars

(***************************************************************************)
(* Threads.  create and delete step by step, as threads that share one     *)
(* instance run them: a step is what a thread does between two places      *)
(* where another thread can see or change what it works on (self.lock,     *)
(* self.data, self.file_lock, the file).  A thread is at                   *)
(*   "lock"    `with self.lock:`, waiting for the lock;                    *)
(*   "body"    inside the with block, holding the lock;                    *)
(*   "insert"  create, past its checks, before self.data[key] = ...;       *)
(*   "acquire" save_data, before acquire_file_lock opens its handle;       *)
(*   "flock"   acquire_file_lock, before fcntl.flock(self.file_lock, ..);  *)
(*   "write"   save_data, before open(self.file_path, 'w');                *)
(*   "dump"    inside json.dump(self.data, f), the file open and cut;      *)
(*   "release" the finally of save_data, before release_file_lock.         *)
(* Each thread passes a value of its own, without ttl.                     *)
(***************************************************************************)
\* The keys the threads create and delete.
ThreadKeys == {Key4, Key32}

\* The value a thread creates its keys with.
ThreadValue(t) == IF t = "t1" THEN VSmall ELSE VMax

\* The thread leaves its call with an exception, or with what the call returns.
Raise(t, exc) == [IdleThread EXCEPT !.op = thr[t].op, !.key = thr[t].key, !.exc = exc]
Return(t) ==
    [IdleThread EXCEPT !.op = thr[t].op, !.key = thr[t].key,
                       !.status = IF thr[t].op = "create" THEN "True" ELSE "deleted"]

\* An exception leaves the with block of create, which releases self.lock; delete is
\* past its with block when it saves.
Unlocked(t) == IF lock = t THEN "none" ELSE lock

\* A thread calls create(key, ThreadValue(t)) or delete(key).
call(t, op, key) ==
    /\ thr[t].pc = "idle"
    /\ thr' = [thr EXCEPT ![t] = [IdleThread EXCEPT !.pc = "lock", !.op = op, !.key = key]]
    /\ UNCHANGED <<data, fill, file, now, last, backup, lock, file_lock, mon>>

\* A lock that lets a thread in while another holds it.
acquire_lock_shared(t) ==
    /\ thr[t].pc = "lock"
    /\ lock' = t
    /\ thr' = [thr EXCEPT ![t].pc = "body"]
    /\ UNCHANGED <<data, fill, file, now, last, backup, file_lock, mon>>

\* with self.lock: threading.Lock is taken when no thread holds it.
acquire_lock(t) ==
    /\ thr[t].pc = "lock"
    /\ lock = "none"
    /\ lock' = t
    /\ thr' = [thr EXCEPT ![t].pc = "body"]
    /\ UNCHANGED <<data, fill, file, now, last, backup, file_lock, mon>>

\* create, lines 190-195: the checks, the first of them `key in self.data`.
create_body(t) ==
    LET chk == create_check(data, thr[t].key, ThreadValue(t)) IN
    /\ thr[t].pc = "body"
    /\ thr[t].op = "create"
    /\ IF chk = "ok"
       THEN /\ thr' = [thr EXCEPT ![t].pc = "insert"]
            /\ UNCHANGED lock
       ELSE /\ thr' = [thr EXCEPT ![t] = Raise(t, chk)]
            /\ lock' = Unlocked(t)
    /\ UNCHANGED <<data, fill, file, now, last, backup, file_lock, mon>>

\* create, lines 196-197: self.data[key] = ...; save_data follows in the block.
create_insert(t) ==
    /\ thr[t].pc = "insert"
    /\ data' = create_store(data, now, thr[t].key, ThreadValue(t), None)
    /\ thr' = [thr EXCEPT ![t].pc = "acquire"]
    /\ UNCHANGED <<fill, file, now, last, backup, lock, file_lock, mon>>

\* delete, lines 220-222: the check and the del; the block ends, save_data follows it.
delete_body(t) ==
    LET chk == delete_check(data, now, thr[t].key) IN
    /\ thr[t].pc = "body"
    /\ thr[t].op = "delete"
    /\ IF chk = "ok"
       THEN /\ data' = delete_store(data, thr[t].key)
            /\ thr' = [thr EXCEPT ![t].pc = "acquire"]
       ELSE /\ thr' = [thr EXCEPT ![t] = Raise(t, chk)]
            /\ UNCHANGED data
    /\ lock' = "none"
    /\ UNCHANGED <<fill, file, now, last, backup, file_lock, mon>>

\* self.file_lock = open(self.file_path, 'a+').  The handle the attribute held has no
\* other reference: it is closed with the assignment, and its lock goes with it.
acquire_file_lock(t) ==
    /\ thr[t].pc = "acquire"
    /\ file_lock' = [owner |-> t, open |-> TRUE, locked |-> FALSE]
    /\ thr' = [thr EXCEPT ![t].pc = "flock"]
    /\ UNCHANGED <<data, fill, file, now, last, backup, lock, mon>>

\* fcntl.flock(self.file_lock, fcntl.LOCK_EX), on the handle the attribute holds now.
\* No other handle is open, so it does not wait; on a handle another thread closed,
\* fileno() raises ValueError, which leaves save_data before its try.
flock(t) ==
    /\ thr[t].pc = "flock"
    /\ IF file_lock.open
       THEN /\ file_lock' = [file_lock EXCEPT !.locked = TRUE]
            /\ thr' = [thr EXCEPT ![t].pc = "write"]
            /\ UNCHANGED lock
       ELSE /\ thr' = [thr EXCEPT ![t] = Raise(t, "ValueError")]
            /\ lock' = Unlocked(t)
            /\ UNCHANGED file_lock
    /\ UNCHANGED <<data, fill, file, now, last, backup, mon>>

\* open(self.file_path, 'w') cuts the file; json.dump starts to iterate self.data.
save_data_open(t) ==
    /\ thr[t].pc = "write"
    /\ file' = Garbage(0)
    /\ thr' = [thr EXCEPT ![t].pc = "dump", ![t].seen = data]
    /\ UNCHANGED <<data, fill, now, last, backup, lock, file_lock, mon>>

\* json.dump ends and the file is closed: the document of the map as the iteration
\* saw it is in the file.  When the map changed since the iteration began, the
\* iteration either was over by then, or (over a map that had entries) raises
\* RuntimeError (dictionary changed size during iteration) and what was written so
\* far stays in the file.
save_data_dump(t) ==
    /\ thr[t].pc = "dump"
    /\ \/ /\ file' = save_data(thr[t].seen, fill)
          /\ thr' = [thr EXCEPT ![t].pc = "release"]
       \/ /\ data # thr[t].seen
          /\ DOMAIN thr[t].seen # {}
          /\ file' = Garbage(0)
          /\ thr' = [thr EXCEPT ![t].pc = "release", ![t].exc = "RuntimeError"]
    /\ UNCHANGED <<data, fill, now, last, backup, lock, file_lock, mon>>

\* release_file_lock unlocks and closes the handle the attribute holds now; on a
\* closed handle fileno() raises ValueError.  Then the call returns, or raises what
\* save_data raised.
release_file_lock(t) ==
    /\ thr[t].pc = "release"
    /\ IF file_lock.open
       THEN /\ file_lock' = [file_lock EXCEPT !.open = FALSE, !.locked = FALSE]
            /\ thr' = [thr EXCEPT ![t] = IF thr[t].exc = "none" THEN Return(t)
                                         ELSE Raise(t, thr[t].exc)]
       ELSE /\ thr' = [thr EXCEPT ![t] = Raise(t, "ValueError")]
            /\ UNCHANGED file_lock
    /\ lock' = Unlocked(t)
    /\ UNCHANGED <<data, fill, file, now, last, backup, mon>>

\* open(self.file_path, 'a+') raises OSError: acquire_file_lock logs and raises again,
\* and save_data has no handler around it.
acquire_file_lock_fails(t) ==
    /\ thr[t].pc = "acquire"
    /\ thr' = [thr EXCEPT ![t] = Raise(t, "OSError")]
    /\ lock' = Unlocked(t)
    /\ UNCHANGED <<data, fill, file, now, last, backup, file_lock, mon>>

\* A failed save that takes the assignment of create back.
save_data_fails_rollback(t) ==
    /\ thr[t].pc \in {"write", "dump"}
    /\ thr' = [thr EXCEPT ![t].pc = "release", ![t].exc = "OSError"]
    /\ data' = IF thr[t].op = "create" THEN delete_store(data, thr[t].key) ELSE data
    /\ UNCHANGED <<fill, file, now, last, backup, lock, file_lock, mon>>

\* open(self.file_path, 'w') raises OSError, or a write of json.dump or of the close
\* does: save_data logs, raises again, and its finally releases the file lock.
save_data_fails(t) ==
    /\ thr[t].pc \in {"write", "dump"}
    /\ thr' = [thr EXCEPT ![t].pc = "release", ![t].exc = "OSError"]
    /\ UNCHANGED <<data, fill, file, now, last, backup, lock, file_lock, mon>>

ThreadStep(t) ==
    \/ \E op \in {"create", "delete"}, key \in ThreadKeys : call(t, op, key)
    \/ acquire_lock(t)
    \/ create_body(t)
    \/ create_insert(t)
    \/ delete_body(t)
    \/ acquire_file_lock(t)
    \/ flock(t)
    \/ save_data_open(t)
    \/ save_data_dump(t)
    \/ release_file_lock(t)

\* Two threads on one instance, with a file system that does not fail.
NextConc == \E t \in Threads : ThreadStep(t)

SpecConc == Init /\ [][NextConc]_vars

\* One thread, with a file system that fails.
NextFail ==
    \/ ThreadStep("t1")
    \/ acquire_file_lock_fails("t1")
    \/ save_data_fails("t1")

SpecFail == Init /\ [][NextFail]_vars

\* Two threads that each call create once, on keys absent from the map.
NextRace ==
    \E t \in Threads :
        \/ thr[t].op = "" /\ \E key \in ThreadKeys : call(t, "create", key)
        \/ acquire_lock(t)
        \/ create_body(t)
        \/ create_insert(t)
        \/ acquire_file_lock(t)
        \/ flock(t)
        \/ save_data_open(t)
        \/ save_data_dump(t)
        \/ release_file_lock(t)

SpecRace == Init /\ [][NextRace]_vars

(***************************************************************************)
(* The monitoring thread that __init__ starts: every monitor_interval it   *)
(* takes self.lock, measures the map and, over a threshold, logs and       *)
(* cleans up.  The calls of the other threads are taken whole; they wait   *)
(* while the lock is held.  The monitor is at                              *)
(*   "sleep"   time.sleep, or `with self.lock:` waiting for the lock;      *)
(*   "check"   inside the with block, holding the lock;                    *)
(*   "cleanup" handle_critical_threshold -> cleanup_expired_keys, at its   *)
(*             `with self.lock:`, inside the with block of the monitor;    *)
(*   "dead"    ended by an exception.                                      *)
(***************************************************************************)
\* usage_percentage > threshold, for usage_percentage = size / MAX_DATA_CAPACITY:
\* size * 100 > threshold * MAX_DATA_CAPACITY, computed within 32 bits.
usage_over(size, threshold) ==
    size > (MAX_DATA_CAPACITY \div 100) * threshold
              + ((MAX_DATA_CAPACITY % 100) * threshold) \div 100

\* len(json.dumps(self.data).encode('utf-8')), the numerator of check_capacity_usage.
check_capacity_usage == current_size(data, fill)

\* The sleep is over and the lock is free: the monitor takes it.
monitor_wake ==
    /\ mon.pc = "sleep"
    /\ lock = "none"
    /\ lock' = "monitor"
    /\ mon' = [mon EXCEPT !.pc = "check"]
    /\ UNCHANGED <<data, fill, file, now, last, backup, thr, file_lock>>

\* The body of the with block.  Over the critical threshold it logs and calls
\* handle_critical_threshold, still holding the lock; else it logs a warning over the
\* warning threshold, and the block ends.
monitor_check ==
    /\ mon.pc = "check"
    /\ IF usage_over(check_capacity_usage, CRITICAL_THRESHOLD)
       THEN /\ mon' = [pc |-> "cleanup", logged |-> "critical"]
            /\ UNCHANGED lock
       ELSE /\ mon' = [pc |-> "sleep",
                       logged |-> IF usage_over(check_capacity_usage, WARNING_THRESHOLD)
                                  THEN "warning" ELSE ""]
            /\ lock' = "none"
    /\ UNCHANGED <<data, fill, file, now, last, backup, thr, file_lock>>

\* cleanup_expired_keys called by a caller's thread or by the monitor: its
\* `with self.lock:` takes the lock when no thread holds it (threading.Lock does not
\* let its holder in again), scans, saves and frees the lock.  Back in the monitor the
\* with block of the loop would free the lock once more, which raises RuntimeError.
cleanup_under_lock(who) ==
    /\ lock = "none"
    /\ who = "monitor" => mon.pc = "cleanup"
    /\ data' = cleanup_store(data, now)
    /\ file' = save_data(data', fill)
    /\ last' = [Call("cleanup") EXCEPT !.removed = DOMAIN data \ DOMAIN data',
                    !.saves = 1, !.locks = 1]
    /\ mon' = IF who = "monitor" THEN [mon EXCEPT !.pc = "dead"] ELSE mon
    /\ UNCHANGED <<fill, now, backup, lock, thr, file_lock>>

\* The store filling up under the eye of the monitor.
NextMon ==
    \/ lock = "none" /\ BulkBatch
    \/ lock = "none" /\ \E ttl \in BatchTtls : create(Key4, VSmall, ttl)
    \/ \E who \in {"caller", "monitor"} : cleanup_under_lock(who)
    \/ monitor_wake
    \/ monitor_check
    \/ Tick

SpecMon == Init /\ [][NextMon]_vars

(***************************************************************************)
(* The claims.  A claim about one operation is an action property: the     *)
(* step is matched against the operation called with the arguments the     *)
(* call record holds after it (an operation records its own arguments, so  *)
(* these are all the arguments the step can be of) and with every ttl.     *)
(***************************************************************************)
\* What read returns for a value it finds.
ReadSuccess(v) == [status |-> "success", message |-> "", value |-> Some(v)]

\* The entry of key in d is there and its expiry, if any, has not passed at time t.
Live(d, t, key) == key \in DOMAIN d /\ (d[key].expiry = None \/ t <= d[key].expiry[1])

\* The value has only what json writes back as it was: its dict keys are strings.
JsonNative(v) == v.k.t = "str"

\* The keys of a sequence of keys.
Range(seq) == {seq[i] : i \in DOMAIN seq}

\* The last call was a create that returned True, and its entry has not expired since.
CreatedAndLive == last.op = "create" /\ last.status = "True" /\ Live(data, now, last.key)

\* C1 as stated: after a successful create(key, value, ttl), until the entry's expiry,
\* read(key) returns success with exactly value, and so does read(key) of a fresh
\* instance loaded from the backing file, for every value create accepts.
C1_RoundTripAnyValue ==
    CreatedAndLive =>
        /\ read_result(data, now, last.key) = ReadSuccess(last.value)
        /\ read_result(json_load(file.doc), now, last.key) = ReadSuccess(last.value)

\* C1 amended: after a successful create(key, value, ttl), until the entry's expiry,
\* read(key) returns success with exactly value; read(key) of a fresh instance loaded
\* from the backing file returns success with the value json reads back, which is
\* exactly value when the dict keys of value are strings.
C1_RoundTrip ==
    CreatedAndLive =>
        /\ read_result(data, now, last.key) = ReadSuccess(last.value)
        /\ read_result(json_load(file.doc), now, last.key).status = "success"
        /\ JsonNative(last.value) =>
              read_result(json_load(file.doc), now, last.key) = ReadSuccess(last.value)

\* A create with a ttl returned True, time has passed, and now is the entry's expiry.
C1_Witness ==
    /\ CreatedAndLive
    /\ JsonNative(last.value)
    /\ last.at < now
    /\ data[last.key].expiry = Some(now)

C2_Step(key, value, ttl) ==
    (Live(data, now, key) /\ create(key, value, ttl)) =>
        /\ last'.exc = "KeyExistsError"
        /\ data' = data
        /\ file' = file

\* C2: create(key, v2) on a key that is present and not expired raises KeyExistsError
\* for every v2 and leaves the map (the entry's value and expiry) and the file as
\* they were.
C2_Uniqueness ==
    [][last'.op = "create" =>
          \A ttl \in Ttls : C2_Step(last'.key, last'.value, ttl)]_vars

\* A create of a live key with another value has just raised KeyExistsError.
C2_Witness ==
    /\ last.op = "create"
    /\ last.exc = "KeyExistsError"
    /\ last.at = now
    /\ Live(data, now, last.key)
    /\ data[last.key].value # last.value

C3_Step(key) ==
    read(key) =>
        /\ last'.status = "success" <=> Live(data, now, key)
        /\ Live(data, now, key) => last'.rvalue = Some(data[key].value)
        /\ ~Live(data, now, key) => last'.rvalue = None
        /\ data' = data

\* C3: read(key) returns success, with the entry's value, if and only if the key is
\* in the map and its expiry is none or now <= expiry; an entry past its expiry is
\* not returned, and read leaves it in the map.
C3_ReadSuccessCondition ==
    [][last'.op = "read" => C3_Step(last'.key)]_vars

\* A read at the very instant of the entry's expiry has returned its value.
C3_Witness ==
    /\ last.op = "read"
    /\ last.status = "success"
    /\ last.at = now
    /\ last.key \in DOMAIN data
    /\ data[last.key].expiry = Some(now)

C4_Step(key) ==
    (key \in DOMAIN data /\ ~Live(data, now, key) /\ read(key)) =>
        LET never == read_result(EmptyMap, now, key)
        IN /\ <<last'.status, last'.message, last'.rvalue>>
                 # <<never.status, never.message, never.value>>
           /\ key \notin DOMAIN data'
           /\ key \notin DOMAIN file'.doc

\* C4 as stated: read(key) of a key that is in the map but past its expiry returns
\* something other than what read returns for a key that was never created, and
\* removes the entry from the map and from the file.
C4_ExpiredReadPurges ==
    [][last'.op = "read" => C4_Step(last'.key)]_vars

C5_Step(key) ==
    delete(key) =>
        IF Live(data, now, key)
        THEN /\ last'.exc = "none"
             /\ last'.status = "deleted"
             /\ DOMAIN data' = DOMAIN data \ {key}
             /\ \A k \in DOMAIN data' : data'[k] = data[k]
             /\ last'.saves = 1
             /\ file' = [doc |-> json_dumps(data'), fill |-> fill]
             /\ DOMAIN file'.doc = DOMAIN data \ {key}
        ELSE /\ last'.exc = "KeyNotFoundError"
             /\ data' = data
             /\ file' = file

\* C5: delete(key) of a key that is present and not expired removes that key alone,
\* saves the new map and returns; delete(key) of a key that is absent or expired
\* raises KeyNotFoundError and leaves the map and the file as they were.
C5_Delete ==
    [][last'.op = "delete" => C5_Step(last'.key)]_vars

\* A delete has removed its key and left another entry in the map.
C5_Witness ==
    /\ last.op = "delete"
    /\ last.status = "deleted"
    /\ last.key \notin DOMAIN data
    /\ DOMAIN data # {}

C6_Step(key, value, ttl) ==
    create(key, value, ttl) =>
        /\ Len(key) > 32 => last'.exc = "KeyTooLongError"
        /\ (Len(key) <= 32 /\ key \notin DOMAIN data /\ value_size(value) <= 16384) =>
              /\ last'.status = "True"
              /\ key \in DOMAIN data'
              /\ data'[key].value = value
        /\ (Len(key) <= 32 /\ key \notin DOMAIN data /\ value_size(value) > 16384) =>
              last'.exc = "ValueTooLargeError"
        /\ last'.exc # "none" => (data' = data /\ file' = file)

\* C6: create rejects a key of more than 32 characters with KeyTooLongError and
\* accepts one of exactly 32; it accepts a value whose text has 16384 characters and
\* rejects one of 16385 with ValueTooLargeError (the key being new and of valid
\* length); a rejected create changes neither the map nor the file; so every key of
\* the map has at most 32 characters and every stored value at most 16384.
C6_Limits ==
    [][/\ last'.op = "create" =>
            \A ttl \in Ttls : C6_Step(last'.key, last'.value, ttl)
       /\ \A k \in DOMAIN data' :
            Len(k) <= 32 /\ value_size(data'[k].value) <= 16384]_vars

\* A create of a key of exactly 32 characters with a value of exactly 16384 was accepted.
C6_Witness ==
    /\ last.op = "create"
    /\ last.status = "True"
    /\ Len(last.key) = 32
    /\ value_size(last.value) = 16384
    /\ last.key \in DOMAIN data

C7_StepStated(key, value, ttl) ==
    create(key, value, ttl) =>
        ((Len(key) <= 32 /\ value_size(value) > 16384) => last'.exc = "ValueTooLargeError")

\* C7 as stated, in what a caller sees of it: create validates before it tests for
\* the key, so an over-limit value (with a key of valid length) raises
\* ValueTooLargeError, not KeyExistsError, also when the key exists.
C7_ValidationFirst ==
    [][last'.op = "create" =>
          \A ttl \in Ttls : C7_StepStated(last'.key, last'.value, ttl)]_vars

C7_Step(key, value, ttl) ==
    create(key, value, ttl) =>
        /\ last'.locks = 1
        /\ key \in DOMAIN data => last'.exc = "KeyExistsError"
        /\ (key \notin DOMAIN data /\ Len(key) > 32) => last'.exc = "KeyTooLongError"
        /\ (key \notin DOMAIN data /\ Len(key) <= 32 /\ value_size(value) > 16384) =>
              last'.exc = "ValueTooLargeError"

\* C7 amended: create takes the lock once, then tests for the key, then the key's
\* length, then the value's size: on an existing key it raises KeyExistsError
\* whatever the value's size, and every validation failure happens under the lock.
C7_ExistenceFirst ==
    [][last'.op = "create" =>
          \A ttl \in Ttls : C7_Step(last'.key, last'.value, ttl)]_vars

\* A create of an existing key with an over-limit value has raised KeyExistsError.
C7_Witness ==
    /\ last.op = "create"
    /\ last.exc = "KeyExistsError"
    /\ value_size(last.value) > 16384
    /\ last.key \in DOMAIN data

\* C8 as stated: the text of the in-memory map never exceeds the capacity ceiling
\* in a state reached by create, batch_create, delete and cleanup from an empty
\* store (a create that would take it over the ceiling fails instead of inserting).
C8_WithinCeiling == current_size(data, fill) <= MAX_DATA_CAPACITY

C9_Step(pairs, nfill, ttl) ==
    batch_create(pairs, nfill, ttl) =>
        IF Len(pairs) + nfill > 100
        THEN /\ last'.status = "error"
             /\ last'.message = "Batch limit exceeded"
             /\ last'.created = <<>>
             /\ last'.saves = 0
             /\ data' = data
             /\ fill' = fill
             /\ file' = file
        ELSE /\ last'.status # "error"
             /\ fill' = fill + nfill
             /\ file'.fill = fill + nfill

\* C9: batch_create of more than 100 pairs returns the batch-limit error and writes
\* nothing (map, fillers and file as they were, no save, no key created); a batch of
\* 100 pairs or fewer is not rejected by the limit, and its filler pairs are written.
C9_BatchLimit ==
    [][last'.op = "batch_create" =>
          \A ttl \in BatchTtls : C9_Step(last'.pairs, last'.nfill, ttl)]_vars

\* A batch of 101 pairs was rejected by a store that had taken a batch of exactly 100.
C9_Witness ==
    /\ last.op = "batch_create"
    /\ last.status = "error"
    /\ Len(last.pairs) + last.nfill = 101
    /\ last.saves = 0
    /\ fill = 100

C10_Step(pairs, nfill, ttl) ==
    (Len(pairs) + nfill <= 100 /\ batch_create(pairs, nfill, ttl)) =>
        /\ Range(last'.created) \cup DOMAIN last'.errors = {pairs[i][1] : i \in DOMAIN pairs}
        /\ Range(last'.created) \cap DOMAIN last'.errors = {}
        /\ Cardinality(Range(last'.created)) = Len(last'.created)
        /\ \A i \in DOMAIN pairs :
              LET key == pairs[i][1]
                  value == pairs[i][2]
              IN /\ key \in Range(last'.created) <=>
                      (Len(key) <= 32 /\ value_size(value) <= 16384
                         /\ key \notin DOMAIN data)
                 /\ key \in Range(last'.created) =>
                      (key \in DOMAIN data' /\ data'[key].value = value)
                 /\ key \notin Range(last'.created) =>
                      IF key \in DOMAIN data
                      THEN key \in DOMAIN data' /\ data'[key] = data[key]
                      ELSE key \notin DOMAIN data'
        /\ last'.status = "success" <=> DOMAIN last'.errors = {}
        /\ last'.status = "partial_success" <=> DOMAIN last'.errors # {}
        /\ fill' = fill + nfill

\* C10: for a batch of at most 100 pairs, every key of the batch is in exactly one of
\* the report's created list and its error map; a key is created iff it is valid
\* (at most 32 characters, a value of at most 16384) and was not in the map before
\* the batch, and is then stored with the batch's value; a key that fails leaves the
\* map as it was for that key and stops no later key; the status is "success" iff
\* the error map is empty and "partial_success" otherwise.
C10_BatchAggregation ==
    [][last'.op = "batch_create" =>
          \A ttl \in BatchTtls : C10_Step(last'.pairs, last'.nfill, ttl)]_vars

\* A batch whose first pair failed on an existing key has created its second key.
C10_Witness ==
    /\ last.op = "batch_create"
    /\ last.status = "partial_success"
    /\ Len(last.pairs) = 2
    /\ last.pairs[1][1] \in DOMAIN last.errors
    /\ last.errors[last.pairs[1][1]] = "KeyExistsError"
    /\ last.created = <<last.pairs[2][1]>>
    /\ last.pairs[2][1] \in DOMAIN data

\* C14: cleanup_expired_keys run again, with no entry newly expired in between, changes
\* neither the map nor the file: what a pass leaves is what a second pass at the same
\* time leaves and saves.
C14_CleanupIdempotent ==
    [][last'.op = "cleanup" /\ cleanup_expired_keys =>
          /\ cleanup_store(data', now') = data'
          /\ save_data(cleanup_store(data', now'), fill') = file']_vars

\* A pass that removed a key and kept an entry whose expiry is set.
C14_Witness ==
    /\ last.op = "cleanup"
    /\ last.removed # {}
    /\ \E k \in DOMAIN data : data[k].expiry # None

\* C15 as stated: a successful create at time now with a ttl, ttl = 0 included, stores
\* expiry = now + ttl, and a create with no ttl stores no expiry.
C15_Step(key, value, ttl) ==
    create(key, value, ttl) /\ last'.status = "True" =>
        data'[key].expiry = (IF ttl = None THEN None ELSE Some(now + ttl[1]))

C15_TtlToExpiry ==
    [][last'.op = "create" => \A ttl \in Ttls : C15_Step(last'.key, last'.value, ttl)]_vars

\* C20: cleanup_expired_keys removes exactly the entries whose expiry is set and earlier
\* than the time of the scan, leaves every other entry as it was, saves once whatever
\* the number of keys removed, and removes an entry exactly when is_key_expired, the
\* test of read and delete, holds of it.
C20_Step ==
    cleanup_expired_keys =>
        /\ DOMAIN data' = {k \in DOMAIN data :
                              ~(data[k].expiry # None /\ data[k].expiry[1] < now)}
        /\ \A k \in DOMAIN data' : data'[k] = data[k]
        /\ \A k \in DOMAIN data : k \notin DOMAIN data' <=> is_key_expired(data, now, k)
        /\ last'.saves = 1
        /\ file' = save_data(data', fill)
        /\ UNCHANGED <<fill, now>>

C20_CleanupExact == [][last'.op = "cleanup" => C20_Step]_vars

\* A pass that removed two keys with its one save.
C20_Witness ==
    /\ last.op = "cleanup"
    /\ Cardinality(last.removed) = 2
    /\ last.saves = 1
    /\ file.doc = json_dumps(data)

\* C13: load_data of a file that does not parse moves its bytes to the backup path,
\* over any earlier backup, saves an empty document, raises InvalidJSONError and leaves
\* an empty map; of no file, it leaves an empty map, saves it and raises nothing.  In
\* both cases the file it leaves parses to the empty map, so the next load raises
\* nothing: the error is reported once.
C13_Step ==
    load_data /\ ~IsJson(file) =>
        /\ data' = EmptyMap /\ fill' = 0
        /\ file' = save_data(EmptyMap, 0)
        /\ IsJson(file') /\ json_load(file'.doc) = EmptyMap
        /\ \A key \in Keys : read_result(data', now', key).status = "error"
        /\ create_check(data', Key4, VSmall) = "ok"
        /\ IF file = NoFile
           THEN last'.exc = "none" /\ backup' = backup
           ELSE last'.exc = "InvalidJSONError" /\ backup' = Some(file.bytes)

AllReturned == \A t \in Threads : thr[t].pc = "idle"

\* C11 as stated: once all calls have returned, a create that returned True and whose
\* key is still in the map has its key in the persisted document, and a delete that
\* returned and whose key is still out of the map has it out of the document.
C11_PersistBeforeSuccess ==
    AllReturned =>
        \A t \in Threads :
            /\ thr[t].status = "True" /\ thr[t].key \in DOMAIN data =>
                   IsJson(file) /\ thr[t].key \in DOMAIN file.doc
            /\ thr[t].status = "deleted" /\ thr[t].key \notin DOMAIN data =>
                   IsJson(file) /\ thr[t].key \notin DOMAIN file.doc

\* A thread has the file open for writing.
Writing(t) == thr[t].pc = "dump"

\* C16 as stated: a thread that writes the file holds the lock of the file on the
\* handle it opened itself, at most one thread writes at any moment, and a thread
\* that releases the file lock releases its own handle.
C16_FileLockExclusive ==
    /\ \A t \in Threads : Writing(t) =>
           file_lock.owner = t /\ file_lock.open /\ file_lock.locked
    /\ \A t, u \in Threads : Writing(t) /\ Writing(u) => t = u
    /\ \A t \in Threads : thr[t].pc = "release" => file_lock.owner = t

\* A thread reads or writes self.data with its next step: the checks and the
\* assignment of create and delete, the iteration of json.dump.
MapAccess(t) == thr[t].pc \in {"body", "insert", "dump"}

\* C17 as stated: a thread that reads or writes the map holds self.lock.
C17_MapUnderLock == \A t \in Threads : MapAccess(t) => lock = t

\* C19 as stated: after a create whose save failed, the thread is out of the call with
\* the error, self.lock is free, the key is in the map, the same create again raises
\* KeyExistsError, and the persisted document does not contain the key.
C19_FailedSave ==
    \A t \in Threads :
        thr[t].pc = "idle" /\ thr[t].op = "create" /\ thr[t].exc = "OSError" =>
            /\ lock = "none"
            /\ thr[t].key \in DOMAIN data
            /\ create_check(data, thr[t].key, VSmall) = "KeyExistsError"
            /\ ~(IsJson(file) /\ thr[t].key \in DOMAIN file.doc)

\* The thread is inside a call whose save has failed, or fails with this step.
Failing(t) == thr[t].exc = "OSError" \/ (thr[t].pc # "idle" /\ thr'[t].exc = "OSError")

\* C19: a save that fails is not tried again and its error leaves the call; from the
\* failure on neither the map nor the file changes, before it the call changes the
\* file only by opening it for writing, which cuts it: the file is left as it was
\* when the call began, or cut.  When the call is left self.lock is free and the
\* change of the map stays: after a create the key is in the map and the same
\* create raises KeyExistsError, after a delete the key is out of the map.
C19_Step(t) ==
    /\ acquire_file_lock_fails(t) \/ save_data_fails(t) =>
           thr'[t].exc = "OSError" /\ thr'[t].pc \in {"release", "idle"}
    /\ thr[t].pc # "idle" /\ Failing(t) =>
           /\ data' = data /\ file' = file
           /\ thr'[t].exc = "OSError"
           /\ thr'[t].pc \in {"release", "idle"}
    /\ thr[t].pc \in {"idle", "lock", "body", "insert", "acquire", "flock"} => file' = file
    /\ thr[t].pc = "write" => file' \in {file, Garbage(0)}
    /\ thr[t].pc # "idle" /\ thr'[t].pc = "idle" /\ thr'[t].exc = "OSError" =>
           /\ lock' = "none"
           /\ thr[t].op = "create" =>
                  /\ thr[t].key \in DOMAIN data'
                  /\ create_check(data', thr[t].key, VSmall) = "KeyExistsError"
           /\ thr[t].op = "delete" => thr[t].key \notin DOMAIN data'

C19_FailedSaveKeepsMutation == [][C19_Step("t1")]_vars

\* A create has raised the error of its save: the key is in the map and not in the
\* document of the file.
C19_Witness ==
    /\ thr["t1"].pc = "idle" /\ thr["t1"].op = "create" /\ thr["t1"].exc = "OSError"
    /\ lock = "none"
    /\ thr["t1"].key \in DOMAIN data
    /\ IsJson(file) /\ thr["t1"].key \notin DOMAIN file.doc

\* C12 as stated, in its finite form: the monitor never holds self.lock without a step
\* to take, so the lock it holds is freed and the calls that wait for it go on.
C12_MonitorReleasesLock ==
    lock = "monitor" => ENABLED (monitor_check \/ cleanup_under_lock("monitor"))

\* size / MAX_DATA_CAPACITY is at or above threshold hundredths.
AtOrAbove(size, threshold) ==
    LET q == (MAX_DATA_CAPACITY \div 100) * threshold
               + ((MAX_DATA_CAPACITY % 100) * threshold) \div 100
        r == ((MAX_DATA_CAPACITY % 100) * threshold) % 100
    IN size > q \/ (size = q /\ r = 0)

\* C18 as stated, for the tick at or above the critical threshold: the tick took the
\* critical branch at such a usage only, and the expiry cleanup pass it has triggered
\* runs.
C18_CriticalTickCleans ==
    /\ mon.logged = "critical" => AtOrAbove(check_capacity_usage, CRITICAL_THRESHOLD)
    /\ mon.pc = "cleanup" => ENABLED cleanup_under_lock("monitor")

\* C22: an entry whose expiry has passed stays in the map, as it is, under every step
\* but cleanup_expired_keys, which removes it: create of its key raises
\* KeyExistsError, read reports it as not found, delete raises KeyNotFoundError,
\* batch_create lists the key under its errors with KeyExistsError, and after each
\* of them a create of the key would still raise KeyExistsError.
C22_Step(key) ==
    key \in DOMAIN data /\ is_key_expired(data, now, key) =>
        /\ IF last'.op = "cleanup" /\ cleanup_expired_keys
           THEN key \notin DOMAIN data'
           ELSE /\ key \in DOMAIN data'
                /\ data'[key] = data[key]
                /\ create_check(data', key, VSmall) = "KeyExistsError"
        /\ last'.op = "create" /\ last'.key = key
               /\ (\E ttl \in Ttls : create(key, last'.value, ttl)) =>
                   last'.exc = "KeyExistsError"
        /\ read(key) => last'.status = "error" /\ last'.rvalue = None
        /\ delete(key) => last'.exc = "KeyNotFoundError"
        /\ last'.op = "batch_create"
               /\ (\E ttl \in BatchTtls : batch_create(last'.pairs, last'.nfill, ttl))
               /\ (\E i \in DOMAIN last'.pairs : last'.pairs[i][1] = key) =>
                   /\ key \in DOMAIN last'.errors
                   /\ last'.errors[key] = "KeyExistsError"
                   /\ key \notin Range(last'.created)

C22_ExpiredStuck == [][\A key \in Keys : C22_Step(key)]_vars

\* A create has raised KeyExistsError for a key whose entry has expired.
C22_Witness ==
    /\ last.op = "create"
    /\ last.exc = "KeyExistsError"
    /\ last.key \in DOMAIN data
    /\ is_key_expired(data, now, last.key)
    /\ last.at = now

\* The other thread.
Other(t) == IF t = "t1" THEN "t2" ELSE "t1"

\* Both threads called create with one key, and both calls are over.
SameKeyRaceOver ==
    /\ AllReturned
    /\ \A t \in Threads : thr[t].op = "create"
    /\ thr["t1"].key = thr["t2"].key

\* C21: two threads call create with one key that is absent beforehand.  Under every
\* interleaving, once both calls are over exactly one returned True and the other
\* raised KeyExistsError, and the entry of the key in the map and in the persisted
\* document carries the value of the call that returned True.  The check and the
\* insertion are one step under self.lock: while a thread is between its check and its
\* assignment it holds the lock and the key is still absent.
C21_OneCreateWins ==
    /\ SameKeyRaceOver =>
           \E w \in Threads :
               /\ thr[w].status = "True" /\ thr[w].exc = "none"
               /\ thr[Other(w)].status = "" /\ thr[Other(w)].exc = "KeyExistsError"
               /\ thr[w].key \in DOMAIN data
               /\ data[thr[w].key].value = ThreadValue(w)
               /\ IsJson(file)
               /\ thr[w].key \in DOMAIN file.doc
               /\ file = save_data(data, fill)
    /\ \A t \in Threads :
           thr[t].pc = "insert" => lock = t /\ thr[t].key \notin DOMAIN data

\* Both calls are over, and the thread that called second in the text won.
C21_Witness ==
    /\ SameKeyRaceOver
    /\ thr["t2"].status = "True"
    /\ thr["t1"].exc = "KeyExistsError"
    /\ data[thr["t2"].key].value = VMax

====
